---- MODULE Spec2Model ----
(***************************************************************************)
(* Model of nanobot's Slack channel (src/nanobot/channels/slack.py):       *)
(* the outbound path  send() = markdown_to_slack + block chunking, and the *)
(* inbound path  _on_socket_request() = admission filter + dispatch.       *)
(*                                                                         *)
(* A Python str is modelled as a sequence of runs [c |-> char, n |-> k]:   *)
(* k copies of the character c.  Letters and digits form maximal runs (so  *)
(* a 3000-character paragraph is one run); every other character (markup,  *)
(* whitespace, punctuation) is a run of length 1.  All string operators    *)
(* below keep that canonical form, so equality of models is equality of    *)
(* strings.                                                                *)
(***************************************************************************)
EXTENDS Integers, Sequences, FiniteSets, TLC

VARIABLES
    config,        \* SlackConfig handed to __init__ (read-only afterwards)
    running,       \* self._running
    web_client,    \* self._web_client is set (TRUE) or None (FALSE)
    socket_client, \* self._socket_client is set (TRUE) or None (FALSE)
    socket_mode_request_listeners,
                   \* some client start() created holds _on_socket_request
    bot_user_id,   \* self._bot_user_id : a str, or NoneStr
    outbox,        \* the OutboundMessage the dispatcher hands to send(), or NoMsg
    posted,        \* the chat_postMessage calls send() has made, each with its msg
    pending,       \* socket-mode requests Slack has emitted and not yet delivered
    start_pc,      \* where the start() call in flight is suspended, or "idle"
    stop_pc,       \* where the stop() call in flight is suspended, or "idle"
    handling,      \* the _on_socket_request calls in flight, each where it awaits
    log            \* one record per _on_socket_request call that has ended

vars == <<config, running, web_client, socket_client,
          socket_mode_request_listeners, bot_user_id,
          outbox, posted, pending, start_pc, stop_pc, handling, log>>

(***************************************************************************)
(* Python values                                                           *)
(***************************************************************************)
None == "None"
NoneStr == <<[c |-> "None", n |-> 0]>>

\* A one-character string.
Ch(c) == <<[c |-> c, n |-> 1]>>

\* A run of k copies of the letter c ("" when k = 0).
Fill(c, k) == IF k = 0 THEN <<>> ELSE <<[c |-> c, n |-> k]>>

NL == Ch("\n")
NLNL == NL \o NL
\* The characters \s and str.strip() take: space, newline, tab, carriage
\* return, form feed, and, written raw, U+000B, U+001C to U+001F, U+0085,
\* U+00A0 and U+1680.  (Python also takes U+2000 to U+200A, U+2028, U+2029,
\* U+202F, U+205F and U+3000, which a string of the model cannot hold.)
Whitespace ==
    {" ", "\n", "\t", "\r", "\f",
     "", "", "", "", "", "", " ", " "}

\* The characters that are kept as runs of length 1; all others are letters.
Special == Whitespace \cup {"*", "_", "#", "-", "~", "[", "]", "(", ")", "<", ">",
            "@", "|", ".", ":", "/"}

\* A Python loop  "for i in range(lo, hi + 1): st = step(i, st)"  over the
\* items of s.  Loop is defined after the loop bodies, below.
RECURSIVE Loop(_, _, _, _, _, _)

\* The loop over all the items of s.
ForEach(kind, arg, s, st) == Loop(kind, arg, s, 1, Len(s), st)

\* Merge adjacent runs of the same letter (canonical form).
NormStep(s, i, out) ==
    IF /\ out # <<>>
       /\ out[Len(out)].c = s[i].c
       /\ s[i].c \notin Special
    THEN [out EXCEPT ![Len(out)].n = @ + s[i].n]
    ELSE Append(out, s[i])

Norm(s) == ForEach("norm", <<>>, s, <<>>)

\* The string whose characters are the entries of the tuple t.
Lit(t) == Norm([i \in 1..Len(t) |-> [c |-> t[i], n |-> 1]])

\* str(k) for a natural number k.
RECURSIVE Decimal(_)
Decimal(k) ==
    LET d == <<"0", "1", "2", "3", "4", "5", "6", "7", "8", "9">>[(k % 10) + 1] IN
    IF k < 10 THEN Ch(d) ELSE Norm(Decimal(k \div 10) \o Ch(d))

\* len(s)
len(s) == ForEach("len", <<>>, s, 0)

\* s[:k]
TakeStep(s, i, st) ==
    IF st.k <= 0 THEN st
    ELSE IF s[i].n <= st.k
         THEN [k |-> st.k - s[i].n, out |-> Append(st.out, s[i])]
         ELSE [k |-> 0, out |-> Append(st.out, [c |-> s[i].c, n |-> st.k])]

take(s, k) == ForEach("take", <<>>, s, [k |-> k, out |-> <<>>]).out

\* sub occurs in s starting at run i.  Exact for a sub that begins and ends
\* with a non-letter character (separators, the mention token, markers).
MatchAt(s, sub, i) ==
    /\ i + Len(sub) - 1 <= Len(s)
    /\ SubSeq(s, i, i + Len(sub) - 1) = sub

\* sub in s
Contains(s, sub) == \E i \in 1..Len(s) : MatchAt(s, sub, i)

\* s.split(sep): left to right, non-overlapping.  st.next is where the scan
\* resumes, st.cur the piece being read, st.acc the pieces closed so far.
SplitStep(sep, s, i, st) ==
    IF i < st.next THEN st
    ELSE IF MatchAt(s, sep, i)
         THEN [next |-> i + Len(sep), cur |-> <<>>, acc |-> Append(st.acc, st.cur)]
         ELSE [st EXCEPT !.next = i + 1, !.cur = Append(@, s[i])]

\* The pieces once the scan has ended: the open piece is the last one.
SplitEnd(st) == Append(st.acc, st.cur)

split(s, sep) ==
    SplitEnd(ForEach("split", sep, s, [next |-> 1, cur |-> <<>>, acc |-> <<>>]))

\* sep.join(parts)
JoinStep(sep, parts, i, out) == IF i = 1 THEN parts[1] ELSE out \o sep \o parts[i]

join(parts, sep) == ForEach("join", sep, parts, <<>>)

\* The least index in lo..hi whose character is in set (member = TRUE) or
\* not in set (member = FALSE); 0 when there is none.
RECURSIVE FindIn(_, _, _, _, _)
FindIn(s, lo, hi, set, member) ==
    IF lo > hi THEN 0
    ELSE IF lo = hi THEN (IF (s[lo].c \in set) = member THEN lo ELSE 0)
    ELSE LET left == FindIn(s, lo, (lo + hi) \div 2, set, member)
         IN IF left # 0 THEN left
            ELSE FindIn(s, ((lo + hi) \div 2) + 1, hi, set, member)

\* The greatest such index; 0 when there is none.
RECURSIVE FindLastIn(_, _, _, _, _)
FindLastIn(s, lo, hi, set, member) ==
    IF lo > hi THEN 0
    ELSE IF lo = hi THEN (IF (s[lo].c \in set) = member THEN lo ELSE 0)
    ELSE LET right == FindLastIn(s, ((lo + hi) \div 2) + 1, hi, set, member)
         IN IF right # 0 THEN right
            ELSE FindLastIn(s, lo, (lo + hi) \div 2, set, member)

(***************************************************************************)
(* markdown_to_slack (lines 24-81): a chain of re.sub passes.  Each pass   *)
(* is a left-to-right scan; at every position the pattern either matches   *)
(* (the replacement is emitted and the scan resumes after the match) or    *)
(* the character is copied.  Every pattern below starts and ends at a      *)
(* non-letter character, so a match never splits a run.                    *)
(***************************************************************************)
NoMatch == [ok |-> FALSE, next |-> 0, repl |-> <<>>]
Matched(next, repl) == [ok |-> TRUE, next |-> next, repl |-> repl]

\* c is the character at run i of s ("" past the end).
CharAt(s, i) == IF i >= 1 /\ i <= Len(s) THEN s[i].c ELSE ""

\* The index f that a search of s has found, or Len(s) + 1 when it found none.
OrEnd(s, f) == IF f = 0 THEN Len(s) + 1 ELSE f

\* The least index >= i whose character is in stop, or Len(s) + 1.
FindFirst(s, i, stop) == OrEnd(s, FindIn(s, i, Len(s), stop, TRUE))

\* The least index >= i whose character is not in skip, or Len(s) + 1.
SkipWhile(s, i, skip) == OrEnd(s, FindIn(s, i, Len(s), skip, FALSE))

\* The greatest index in lo..hi whose character is not a newline, or 0.
LastNonNewline(s, lo, hi) == FindLastIn(s, lo, hi, {"\n"}, FALSE)

\* ^ under re.MULTILINE
AtLineStart(s, i) == i = 1 \/ CharAt(s, i - 1) = "\n"

Star == Ch("*")
Underscore == Ch("_")

\* Line 40:  ^#{1,6}\s+(.+)$  ->  *\1*
\* The hashes must be all of the line's leading hashes (at most 6); \s+ is
\* greedy and gives characters back to (.+) only when the whitespace runs to
\* the end of the text.
\* The hashes end before j, the whitespace before p, (.+) runs from q to the
\* end of the line, eol.
HeaderLine(s, q, eol) == Matched(eol, Star \o SubSeq(s, q, eol - 1) \o Star)

HeaderText(s, i, j, p, q) ==
    IF /\ AtLineStart(s, i)
       /\ j - i >= 1 /\ j - i <= 6
       /\ p > j
       /\ q > j
    THEN HeaderLine(s, q, FindFirst(s, q, {"\n"}))
    ELSE NoMatch

HeaderSpace(s, i, j, p) ==
    HeaderText(s, i, j, p,
               IF p <= Len(s) THEN p ELSE LastNonNewline(s, j + 1, Len(s)))

HeaderHashes(s, i, j) == HeaderSpace(s, i, j, SkipWhile(s, j, Whitespace))

MatchHeader(s, i) == HeaderHashes(s, i, SkipWhile(s, i, {"#"}))

\* Line 44:  \[([^\]]+)\]\(([^)]+)\)  ->  <\2|\1>
\* The text is closed by "]" at a, the target by ")" at b.
LinkTarget(s, i, a, b) ==
    IF /\ CharAt(s, i) = "["
       /\ a > i + 1 /\ a <= Len(s)
       /\ CharAt(s, a + 1) = "("
       /\ b > a + 2 /\ b <= Len(s)
    THEN Matched(b + 1, Ch("<") \o SubSeq(s, a + 2, b - 1) \o Ch("|")
                         \o SubSeq(s, i + 1, a - 1) \o Ch(">"))
    ELSE NoMatch

LinkText(s, i, a) == LinkTarget(s, i, a, FindFirst(s, a + 2, {")"}))

MatchLink(s, i) == LinkText(s, i, FindFirst(s, i + 1, {"]"}))

\* The shape  mm([^m]+)mm  ->  r\1r  shared by lines 47, 52 and 53; the
\* group ends before a.
DoubleGroup(s, i, m, r, a) ==
    IF /\ CharAt(s, i) = m /\ CharAt(s, i + 1) = m
       /\ a > i + 2
       /\ CharAt(s, a) = m /\ CharAt(s, a + 1) = m
    THEN Matched(a + 2, Ch(r) \o SubSeq(s, i + 2, a - 1) \o Ch(r))
    ELSE NoMatch

MatchDouble(s, i, m, r) == DoubleGroup(s, i, m, r, FindFirst(s, i + 2, {m}))

\* Line 47:  ~~([^~]+)~~  ->  ~\1~
MatchStrike(s, i) == MatchDouble(s, i, "~", "~")

\* Line 52:  \*\*([^*]+)\*\*  ->  *\1*
MatchBoldStars(s, i) == MatchDouble(s, i, "*", "*")

\* Line 53:  __([^_]+)__  ->  *\1*
MatchBoldUnderscores(s, i) == MatchDouble(s, i, "_", "*")

\* Line 62:  bold_pattern = \*([^*\n]+)\*   (the whole match is group 0)
BoldGroup(s, i, a) ==
    IF /\ CharAt(s, i) = "*"
       /\ a > i + 1
       /\ CharAt(s, a) = "*"
    THEN Matched(a + 1, SubSeq(s, i, a))
    ELSE NoMatch

MatchBoldPattern(s, i) == BoldGroup(s, i, FindFirst(s, i + 1, {"*", "\n"}))

\* Line 72:  (?<!\*)\*(?!\*)([^*\n]+?)(?<!\*)\*(?!\*)  ->  _\1_
ItalicGroup(s, i, a) ==
    IF /\ CharAt(s, i) = "*"
       /\ CharAt(s, i - 1) # "*"
       /\ CharAt(s, i + 1) # "*"
       /\ a > i + 1
       /\ CharAt(s, a) = "*"
       /\ CharAt(s, a + 1) # "*"
    THEN Matched(a + 1, Underscore \o SubSeq(s, i + 1, a - 1) \o Underscore)
    ELSE NoMatch

MatchItalic(s, i) == ItalicGroup(s, i, FindFirst(s, i + 1, {"*", "\n"}))

\* Line 79:  ^(\s*)- (re.MULTILINE)  ->  \1*<space>
BulletIndent(s, i, j) ==
    IF /\ AtLineStart(s, i)
       /\ CharAt(s, j) = "-"
       /\ CharAt(s, j + 1) = " "
    THEN Matched(j + 2, SubSeq(s, i, j - 1) \o Star \o Ch(" "))
    ELSE NoMatch

MatchBullet(s, i) == BulletIndent(s, i, SkipWhile(s, i, Whitespace))

MatchStage(stage, s, i) ==
    CASE stage = "header" -> MatchHeader(s, i)
      [] stage = "link" -> MatchLink(s, i)
      [] stage = "strike" -> MatchStrike(s, i)
      [] stage = "bold_stars" -> MatchBoldStars(s, i)
      [] stage = "bold_underscores" -> MatchBoldUnderscores(s, i)
      [] stage = "italic" -> MatchItalic(s, i)
      [] stage = "bullet" -> MatchBullet(s, i)

\* re.sub(pattern, replacement, s) for the pattern of the given stage:
\* st.next is where the scan resumes, st.out the output so far.
Emit(s, i, st, m) ==
    IF m.ok THEN [next |-> m.next, out |-> st.out \o m.repl]
    ELSE [next |-> i + 1, out |-> Append(st.out, s[i])]

SubStep(stage, s, i, st) ==
    IF i < st.next THEN st ELSE Emit(s, i, st, MatchStage(stage, s, i))

re_sub(stage, s) == Norm(ForEach("sub", stage, s, [next |-> 1, out |-> <<>>]).out)

\* f"__BOLD_{k}__"
BoldPlaceholder(k) ==
    Lit(<<"_", "_", "B", "O", "L", "D", "_">>) \o Decimal(k) \o Lit(<<"_", "_">>)

\* Lines 63-67: save_bold(match) appends the match to bold_matches and
\* returns the placeholder that takes its place.
save_bold(s, i, st, m) ==
    IF m.ok
    THEN [next |-> m.next,
          out |-> st.out \o BoldPlaceholder(Len(st.bold_matches)),
          bold_matches |-> Append(st.bold_matches, m.repl)]
    ELSE [st EXCEPT !.next = i + 1, !.out = Append(@, s[i])]

SaveBoldStep(s, i, st) ==
    IF i < st.next THEN st ELSE save_bold(s, i, st, MatchBoldPattern(s, i))

SavedBold(st) == [text |-> Norm(st.out), bold_matches |-> st.bold_matches]

\* SaveBold gone wrong: no bold text is put aside before the italic pass.
SaveNoBold(s) == [text |-> s, bold_matches |-> <<>>]

\* Line 69: bold_pattern.sub(save_bold, text); yields the text with the
\* placeholders and the list bold_matches.
SaveBold(s) ==
    SavedBold(ForEach("save_bold", <<>>, s,
                      [next |-> 1, out |-> <<>>, bold_matches |-> <<>>]))

\* s.replace(old, new), with pair = <<old, new>>
ReplaceStep(pair, s, i, st) ==
    IF i < st.next THEN st
    ELSE IF MatchAt(s, pair[1], i)
         THEN [next |-> i + Len(pair[1]), out |-> st.out \o pair[2]]
         ELSE [next |-> i + 1, out |-> Append(st.out, s[i])]

replace(s, old, new) ==
    Norm(ForEach("replace", <<old, new>>, s, [next |-> 1, out |-> <<>>]).out)

\* Lines 75-76: for i, bold_text in enumerate(bold_matches): text.replace(...)
RestoreStep(bold_matches, k, text) ==
    replace(text, BoldPlaceholder(k - 1), bold_matches[k])

RestoreBold(text, bold_matches) == ForEach("restore", <<>>, bold_matches, text)

\* Lines 72-76: the italic pass over the text with the placeholders, then
\* the placeholders are replaced by the saved bold texts.
ItalicAround(saved) == RestoreBold(re_sub("italic", saved.text), saved.bold_matches)

\* Lines 40-53: the passes before the bold texts are saved.
BeforeSave(text) ==
    re_sub("bold_underscores",
        re_sub("bold_stars", re_sub("strike", re_sub("link", re_sub("header", text)))))

markdown_to_slack(text) ==
    IF text = <<>> THEN text
    ELSE re_sub("bullet", ItalicAround(SaveBold(BeforeSave(text))))

(***************************************************************************)
(* send(): chunking of the converted text into blocks (lines 166-258)      *)
(***************************************************************************)
MAX_BLOCK_LENGTH == 3000
MAX_BLOCKS == 50
Ellipsis == Lit(<<".", ".", ".">>)

\* "if pieces: chunks.append(sep.join(pieces))"  (lines 195, 209, 224, 237)
Flush(chunks, pieces, sep) ==
    IF pieces # <<>> THEN Append(chunks, join(pieces, sep)) ELSE chunks

\* FlushLines gone wrong: the collected lines are discarded, not appended.
FlushLinesLost(st) ==
    IF st.line_chunk # <<>>
    THEN [chunks |-> st.chunks, line_chunk |-> <<>>, line_length |-> 0]
    ELSE st

\* Lines 208-211: the lines collected so far become a chunk.
FlushLines(st) ==
    IF st.line_chunk # <<>>
    THEN [chunks |-> Append(st.chunks, join(st.line_chunk, NL)),
          line_chunk |-> <<>>, line_length |-> 0]
    ELSE st

\* PlaceLine gone wrong: the ellipsis is added to MAX_BLOCK_LENGTH kept
\* characters, not to MAX_BLOCK_LENGTH - 3.
PlaceLineUncut(st, line, line_len) ==
    IF line_len > MAX_BLOCK_LENGTH
    THEN [st EXCEPT !.chunks = Append(@, take(line, MAX_BLOCK_LENGTH) \o Ellipsis)]
    ELSE [st EXCEPT !.line_chunk = Append(@, line), !.line_length = line_len]

\* PlaceLine gone wrong: the cut line is collected with the lines after it,
\* not made a chunk of its own.
PlaceLineCollected(st, line, line_len) ==
    IF line_len > MAX_BLOCK_LENGTH
    THEN [st EXCEPT !.line_chunk =
             Append(@, take(line, MAX_BLOCK_LENGTH - 3) \o Ellipsis)]
    ELSE [st EXCEPT !.line_chunk = Append(@, line), !.line_length = line_len]

\* Lines 213-218: a line that does not fit behind the lines collected so far
\* is cut when it is too long for a chunk, and starts a new collection
\* otherwise.
PlaceLine(st, line, line_len) ==
    IF line_len > MAX_BLOCK_LENGTH
    THEN [st EXCEPT !.chunks =
             Append(@, take(line, MAX_BLOCK_LENGTH - 3) \o Ellipsis)]
    ELSE [st EXCEPT !.line_chunk = Append(@, line), !.line_length = line_len]

\* One iteration of  "for line in lines"  (lines 206-221).
AddLine(st, line, line_len) ==
    IF st.line_length + line_len + 1 > MAX_BLOCK_LENGTH
    THEN PlaceLine(FlushLines(st), line, line_len)
    ELSE [st EXCEPT !.line_chunk = Append(@, line),
                    !.line_length = @ + line_len + 1]

LineStep(st, line) == AddLine(st, line, len(line))

\* Line 224: the lines still collected when the paragraph ends.
LinesEnd(st) == Flush(st.chunks, st.line_chunk, NL)

\* Lines 201-224: a paragraph that is too long is split by line.
SplitLongParagraph(chunks, para) ==
    LinesEnd(ForEach("lines", <<>>, split(para, NL),
                     [chunks |-> chunks, line_chunk |-> <<>>, line_length |-> 0]))

\* One iteration of  "for para in paragraphs"  (lines 190-234).
AddParagraph(st, para, para_length) ==
    IF para_length > MAX_BLOCK_LENGTH
    THEN [chunks |-> SplitLongParagraph(
                         Flush(st.chunks, st.current_chunk, NLNL), para),
          current_chunk |-> <<>>,
          current_length |-> IF st.current_chunk # <<>> THEN 0
                             ELSE st.current_length]
    ELSE IF st.current_length + para_length > MAX_BLOCK_LENGTH
         THEN [chunks |-> Append(st.chunks, join(st.current_chunk, NLNL)),
               current_chunk |-> <<para>>,
               current_length |-> para_length]
         ELSE [st EXCEPT !.current_chunk = Append(@, para),
                         !.current_length = @ + para_length]

ParaStep(st, para) == AddParagraph(st, para, len(para) + 2)

\* Line 237: the paragraphs still collected when the text ends.
ParagraphsEnd(st) == Flush(st.chunks, st.current_chunk, NLNL)

\* Lines 183-238: the chunks of a text longer than MAX_BLOCK_LENGTH.
Chunks(slack_content) ==
    ParagraphsEnd(ForEach("paragraphs", <<>>, split(slack_content, NLNL),
                          [chunks |-> <<>>, current_chunk |-> <<>>,
                           current_length |-> 0]))

\* {"type": "section", "text": {"type": "mrkdwn", "text": body}}
SectionBlock(body) == [type |-> "section", text |-> body]

\* f"_Message truncated ({k} blocks omitted)_"
NoteText(k) ==
    Lit(<<"_", "M", "e", "s", "s", "a", "g", "e", " ", "t", "r", "u", "n", "c", "a",
          "t", "e", "d", " ", "(">>)
    \o Decimal(k)
    \o Lit(<<" ", "b", "l", "o", "c", "k", "s", " ", "o", "m", "i", "t", "t", "e",
             "d", ")", "_">>)

\* {"type": "context", "elements": [{"type": "mrkdwn", "text": NoteText(k)}]}
NoteBlock(k) == [type |-> "context", text |-> NoteText(k)]

\* Lines 240-248: chunks[:50] as section blocks.
ChunkBlocks(chunks) ==
    [i \in 1..(IF Len(chunks) < MAX_BLOCKS THEN Len(chunks) ELSE MAX_BLOCKS)
        |-> SectionBlock(chunks[i])]

\* TruncationNote gone wrong: the note reports all the chunks.
TruncationNoteOfTotal(chunks) ==
    IF Len(chunks) > MAX_BLOCKS THEN <<NoteBlock(Len(chunks))>> ELSE <<>>

\* Lines 250-258: the note, when more than 50 chunks were produced.
TruncationNote(chunks) ==
    IF Len(chunks) > MAX_BLOCKS THEN <<NoteBlock(Len(chunks) - MAX_BLOCKS)>> ELSE <<>>

\* Lines 240-258: the blocks of the chunks.
BlocksOf(chunks) == ChunkBlocks(chunks) \o TruncationNote(chunks)

\* Blocks gone wrong: a text of exactly MAX_BLOCK_LENGTH characters is chunked.
BlocksSplitAtLimit(slack_content) ==
    IF len(slack_content) < MAX_BLOCK_LENGTH
    THEN <<SectionBlock(slack_content)>>
    ELSE BlocksOf(Chunks(slack_content))

\* Lines 168-258: the blocks of one message.
Blocks(slack_content) ==
    IF len(slack_content) <= MAX_BLOCK_LENGTH
    THEN <<SectionBlock(slack_content)>>
    ELSE BlocksOf(Chunks(slack_content))

\* Lines 156-160: thread_ts if (thread_ts and channel_type != "im") else None
ReplyThread(msg) ==
    IF msg.thread_ts \notin {None, ""} /\ msg.channel_type # "im"
    THEN msg.thread_ts ELSE None

\* chat_postMessage gone wrong: the fallback text is the first block's body.
chat_postMessage_first_block(msg, slack_content) ==
    [channel |-> msg.chat_id,
     text |-> Blocks(slack_content)[1].text,
     blocks |-> Blocks(slack_content),
     thread_ts |-> ReplyThread(msg)]

\* Lines 260-265: the arguments of chat_postMessage.
chat_postMessage(msg, slack_content) ==
    [channel |-> msg.chat_id,
     text |-> slack_content,
     blocks |-> Blocks(slack_content),
     thread_ts |-> ReplyThread(msg)]

\* Line 164: slack_content = markdown_to_slack(msg.content or "")
PostCall(msg) ==
    chat_postMessage(msg, markdown_to_slack(IF msg.content = NoneStr THEN <<>>
                                            ELSE msg.content))

(***************************************************************************)
(* Inbound: the admission rules of _on_socket_request (lines 269-359).     *)
(* `self` is the channel object the methods read: its config, its          *)
(* _bot_user_id and whether its _web_client is set.                        *)
(***************************************************************************)
\* "not x" for an optional atom (None or "") and for an optional str.
Falsy(x) == x \in {None, ""}
FalsyStr(x) == x = NoneStr \/ x = <<>>

\* f"<@{user_id}>"
MentionToken(user_id) == Ch("<") \o Ch("@") \o user_id \o Ch(">")

\* Line 288
RecognizedType(event) == event.type \in {"message", "app_mention"}

\* SystemSubtype gone wrong: no subtype is taken for a system message.
NoSystemSubtype(event) == FALSE

\* Line 295
SystemSubtype(event) == ~Falsy(event.subtype) /\ event.subtype # "file_share"

\* Line 297
SelfAuthored(self, event) ==
    ~FalsyStr(self.bot_user_id) /\ event.user = self.bot_user_id

\* self._bot_user_id and f"<@{self._bot_user_id}>" in text  (lines 305, 380)
MentionsBot(self, text) ==
    ~FalsyStr(self.bot_user_id) /\ Contains(text, MentionToken(self.bot_user_id))

\* event.get("text") or ""   (line 303)
TextOf(event) == IF FalsyStr(event.text) THEN <<>> ELSE event.text

\* Line 305: a message event that an app_mention event is expected to repeat.
Superseded(self, event) ==
    event.type = "message" /\ MentionsBot(self, TextOf(event)) /\ event.files = 0

\* Line 318
MissingIdentity(event) == FalsyStr(event.user) \/ Falsy(event.channel)

\* _is_allowed gone wrong: dm.enabled is not looked at.
_is_allowed_unless_listed(self, sender_id, chat_id, channel_type) ==
    IF channel_type = "im"
    THEN IF self.config.dm.policy = "allowlist"
         THEN sender_id \in self.config.dm.allow_from
         ELSE TRUE
    ELSE IF self.config.group_policy = "allowlist"
         THEN chat_id \in self.config.group_allow_from
         ELSE TRUE

\* Lines 361-372
_is_allowed(self, sender_id, chat_id, channel_type) ==
    IF channel_type = "im"
    THEN IF ~self.config.dm.enabled THEN FALSE
         ELSE IF self.config.dm.policy = "allowlist"
              THEN sender_id \in self.config.dm.allow_from
              ELSE TRUE
    ELSE IF self.config.group_policy = "allowlist"
         THEN chat_id \in self.config.group_allow_from
         ELSE TRUE

\* _should_respond_in_channel gone wrong: mode "mention" answers like "open".
_should_respond_to_any_message(self, event_type, text, chat_id) ==
    IF self.config.group_policy \in {"open", "mention"} THEN TRUE
    ELSE IF self.config.group_policy = "allowlist"
         THEN chat_id \in self.config.group_allow_from
         ELSE FALSE

\* Lines 374-383
_should_respond_in_channel(self, event_type, text, chat_id) ==
    IF self.config.group_policy = "open" THEN TRUE
    ELSE IF self.config.group_policy = "mention"
         THEN IF event_type = "app_mention" THEN TRUE
              ELSE /\ self.bot_user_id # NoneStr
                   /\ Contains(text, MentionToken(self.bot_user_id))
         ELSE IF self.config.group_policy = "allowlist"
              THEN chat_id \in self.config.group_allow_from
              ELSE FALSE

\* event.get("channel_type") or ""   (line 321)
ChannelTypeOf(event) == IF Falsy(event.channel_type) THEN "" ELSE event.channel_type

\* Lines 323-327: the access policy.
PolicyAdmits(self, event) ==
    /\ _is_allowed(self, event.user, event.channel, ChannelTypeOf(event))
    /\ \/ ChannelTypeOf(event) = "im"
       \/ _should_respond_in_channel(self, event.type, TextOf(event), event.channel)

\* Lines 288-327: every admission rule passes.
Admitted(self, event) ==
    /\ RecognizedType(event)
    /\ ~SystemSubtype(event)
    /\ ~SelfAuthored(self, event)
    /\ ~Superseded(self, event)
    /\ ~MissingIdentity(event)
    /\ PolicyAdmits(self, event)

\* s.strip()
Between(s, a, b) == IF a = 0 THEN <<>> ELSE SubSeq(s, a, b)

strip(s) ==
    Between(s, FindIn(s, 1, Len(s), Whitespace, FALSE),
               FindLastIn(s, 1, Len(s), Whitespace, FALSE))

\* re.sub(rf"<@{re.escape(bot)}>\s*", "", text): the token and all the
\* whitespace that follows it are removed.
RemoveMentionStep(token, s, i, st) ==
    IF i < st.next THEN st
    ELSE IF MatchAt(s, token, i)
         THEN [st EXCEPT !.next = SkipWhile(s, i + Len(token), Whitespace)]
         ELSE [next |-> i + 1, out |-> Append(st.out, s[i])]

\* Lines 385-388
_strip_bot_mention(self, text) ==
    IF FalsyStr(text) \/ FalsyStr(self.bot_user_id) THEN text
    ELSE strip(Norm(ForEach("remove_mention", MentionToken(self.bot_user_id), text,
                            [next |-> 1, out |-> <<>>]).out))

\* ThreadOf gone wrong: the event's own ts is always taken.
ThreadOfOwnTs(event) == event.ts

\* event.get("thread_ts") or event.get("ts")   (line 331)
ThreadOf(event) == IF ~Falsy(event.thread_ts) THEN event.thread_ts ELSE event.ts

\* Acknowledged gone wrong: the acknowledgement is sent after the event type
\* was looked at.
AcknowledgedIfRecognized(req) == req.type = "events_api" /\ RecognizedType(req.event)

\* Lines 275-281: a request of type events_api is acknowledged, before its
\* payload is read; a request of any other type is dropped.
Acknowledged(req) == req.type = "events_api"

\* Line 334: the download step is entered for an admitted event with files.
DownloadsFiles(event, admitted) == admitted /\ event.files > 0

\* AddsReaction gone wrong: the reaction does not wait for the admission rules.
AddsReactionToAny(self, event, admitted) == self.web_client /\ ~Falsy(event.ts)

\* Lines 338-339: reactions_add is called for an admitted event with a ts.
AddsReaction(self, event, admitted) ==
    admitted /\ self.web_client /\ ~Falsy(event.ts)

\* Calls gone wrong: the reaction is added before the files are downloaded.
CallsReactionFirst(acked, downloads, reacts, admitted) ==
    (IF acked THEN <<"send_socket_mode_response">> ELSE <<>>)
    \o (IF reacts THEN <<"reactions_add">> ELSE <<>>)
    \o (IF downloads THEN <<"_download_slack_files">> ELSE <<>>)
    \o (IF admitted THEN <<"_handle_message">> ELSE <<>>)

\* The calls one run of the handler makes, in the order of its statements
\* (lines 279, 334, 340, 347).
Calls(acked, downloads, reacts, admitted) ==
    (IF acked THEN <<"send_socket_mode_response">> ELSE <<>>)
    \o (IF downloads THEN <<"_download_slack_files">> ELSE <<>>)
    \o (IF reacts THEN <<"reactions_add">> ELSE <<>>)
    \o (IF admitted THEN <<"_handle_message">> ELSE <<>>)

\* What one call of _on_socket_request does: the request req was acknowledged
\* or not, its event was admitted or not; the download step yields `media`
\* local paths and reactions_add succeeds or raises (reaction_ok).  The
\* record keeps the identity the channel held during the call, and the
\* keyword arguments of _handle_message when the event is dispatched.
Outcome(self, req, event, media, reaction_ok, acked, admitted) ==
    [req |-> req,
     bot_user_id |-> self.bot_user_id,
     acked |-> acked,
     raised |-> FALSE,
     calls |-> Calls(acked, DownloadsFiles(event, admitted),
                     AddsReaction(self, event, admitted), admitted),
     downloaded |-> DownloadsFiles(event, admitted),
     reaction_tried |-> AddsReaction(self, event, admitted),
     reacted |-> AddsReaction(self, event, admitted) /\ reaction_ok,
     dispatched |-> admitted,
     sender_id |-> IF admitted THEN event.user ELSE NoneStr,
     chat_id |-> IF admitted THEN event.channel ELSE None,
     content |-> IF admitted THEN _strip_bot_mention(self, TextOf(event)) ELSE NoneStr,
     media |-> IF admitted /\ event.files > 0 THEN media ELSE 0,
     thread_ts |-> IF admitted THEN ThreadOf(event) ELSE None,
     channel_type |-> IF admitted THEN ChannelTypeOf(event) ELSE None]

\* Handle gone wrong: the channel remembers that it dispatched an event and
\* ignores the events that come after it.
HandleUntilDispatched(self, req, media, reaction_ok) ==
    Outcome(self, req, req.event, media, reaction_ok, Acknowledged(req),
            /\ Acknowledged(req)
            /\ Admitted(self, req.event)
            /\ \A i \in DOMAIN log : ~log[i].dispatched)

\* Lines 275-359
Handle(self, req, media, reaction_ok) ==
    Outcome(self, req, req.event, media, reaction_ok, Acknowledged(req),
            Acknowledged(req) /\ Admitted(self, req.event))

\* Line 279 is not inside a try: when send_socket_mode_response raises, the
\* exception leaves the handler and nothing after the call runs.
AckRaised(self, req) ==
    [Outcome(self, req, req.event, 0, FALSE, TRUE, FALSE) EXCEPT !.raised = TRUE]

(***************************************************************************)
(* The loops                                                               *)
(***************************************************************************)
\* The body of each loop, applied to item i of s in state st.
LoopStep(kind, arg, s, i, st) ==
    CASE kind = "norm" -> NormStep(s, i, st)
      [] kind = "len" -> st + s[i].n
      [] kind = "take" -> TakeStep(s, i, st)
      [] kind = "split" -> SplitStep(arg, s, i, st)
      [] kind = "join" -> JoinStep(arg, s, i, st)
      [] kind = "sub" -> SubStep(arg, s, i, st)
      [] kind = "save_bold" -> SaveBoldStep(s, i, st)
      [] kind = "replace" -> ReplaceStep(arg, s, i, st)
      [] kind = "restore" -> RestoreStep(s, i, st)
      [] kind = "lines" -> LineStep(st, s[i])
      [] kind = "paragraphs" -> ParaStep(st, s[i])
      [] kind = "remove_mention" -> RemoveMentionStep(arg, s, i, st)

\* The items lo..hi in order: the left half of the range, then the right
\* half from the state the left half ends in.  (The test  left = left  makes
\* the left half's state a value before the right half starts.)
Loop(kind, arg, s, lo, hi, st) ==
    IF lo > hi THEN st
    ELSE IF lo = hi THEN LoopStep(kind, arg, s, lo, st)
    ELSE LET left == Loop(kind, arg, s, lo, (lo + hi) \div 2, st)
         IN IF left = left
            THEN Loop(kind, arg, s, ((lo + hi) \div 2) + 1, hi, left)
            ELSE st

(***************************************************************************)
(* The inputs: configurations, outbound messages, Slack deliveries         *)
(***************************************************************************)
\* The user id Slack's auth_test reports for this bot, and two other users.
BotUserId == Lit(<<"B">>)
U1 == Lit(<<"U", "1">>)
U2 == Lit(<<"U", "2">>)

DmPolicies == {"open", "allowlist", "closed"}
GroupPolicies == {"open", "mention", "allowlist", "closed"}

\* SlackConfig values.  An allow list is varied only under the mode that
\* reads it.
PolicyConfigs ==
    {[bot_token |-> "xoxb", app_token |-> "xapp", mode |-> "socket",
      dm |-> [enabled |-> e, policy |-> dp, allow_from |-> da],
      group_policy |-> gp, group_allow_from |-> ga] :
        e \in BOOLEAN, dp \in DmPolicies, da \in {{}, {U1}},
        gp \in GroupPolicies, ga \in {{}, {"C1"}}}

BaseConfig ==
    [bot_token |-> "xoxb", app_token |-> "xapp", mode |-> "socket",
     dm |-> [enabled |-> TRUE, policy |-> "open", allow_from |-> {}],
     group_policy |-> "mention", group_allow_from |-> {}]

\* Configurations with which start() returns at once (lines 98-103).
UnstartableConfigs ==
    {[BaseConfig EXCEPT !.bot_token = ""],
     [BaseConfig EXCEPT !.app_token = ""],
     [BaseConfig EXCEPT !.mode = "webhook"]}

Configs ==
    {c \in PolicyConfigs :
        /\ c.dm.policy # "allowlist" => c.dm.allow_from = {}
        /\ c.group_policy # "allowlist" => c.group_allow_from = {}}
    \cup UnstartableConfigs

\* Event texts.
EventTexts ==
    {Lit(<<"h", "i">>),
     Lit(<<"<", "@", "B", ">", " ", "h", "i">>),
     Lit(<<"h", "i", " ", "<", "@", "B", ">", " ", " ", "y", "o">>),
     Lit(<<"<", "@", "U", "1", ">", " ", "h", "i">>),
     Lit(<<"<", "@", "<", "@", "B", ">", "B", ">", " ", "h", "i">>),
     Lit(<<"<", "@", ">", " ", "h", "i">>)}

\* A message a user posts: Slack turns it into one or two events.
PhysicalMessages ==
    {[user |-> u, channel |-> ch[1], channel_type |-> ch[2], text |-> t,
      files |-> f, ts |-> "1.0", thread_ts |-> th] :
        u \in {BotUserId, U1, U2},
        ch \in {<<"C1", "channel">>, <<"C2", "group">>, <<"D1", "im">>},
        t \in EventTexts, f \in {0, 1}, th \in {None, "0.5"}}

EventsApi(event) == [type |-> "events_api", event |-> event]

\* The generic message event of a physical message (subtype file_share when
\* files are attached).
MessageEvent(m) ==
    [type |-> "message", subtype |-> IF m.files > 0 THEN "file_share" ELSE None,
     user |-> m.user, channel |-> m.channel, channel_type |-> m.channel_type,
     text |-> m.text, files |-> m.files, ts |-> m.ts, thread_ts |-> m.thread_ts]

\* The app_mention event of the same message: it carries no files and no
\* channel_type (lines 300-302).
AppMentionEvent(m) ==
    [type |-> "app_mention", subtype |-> None,
     user |-> m.user, channel |-> m.channel, channel_type |-> None,
     text |-> m.text, files |-> 0, ts |-> m.ts, thread_ts |-> m.thread_ts]

\* Slack sends both events when the bot is mentioned in a channel or group.
EmitsAppMention(m) ==
    m.channel_type # "im" /\ Contains(m.text, MentionToken(BotUserId))

SlackEvents(m) ==
    {EventsApi(MessageEvent(m))}
    \cup (IF EmitsAppMention(m) THEN {EventsApi(AppMentionEvent(m))} ELSE {})

\* Events of every other shape the listener can be handed.
OtherEvents ==
    {[type |-> et, subtype |-> st, user |-> u, channel |-> ch,
      channel_type |-> ct, text |-> t, files |-> 0,
      ts |-> ts, thread_ts |-> None] :
        t \in {Lit(<<"h", "i">>), NoneStr},
        et \in {"message", "app_mention", "reaction_added", None},
        st \in {None, "file_share", "message_changed"},
        u \in {NoneStr, U1}, ch \in {None, "C1"}, ct \in {"im", "channel"},
        ts \in {None, "1.0"}}

\* Requests that are not events (line 275).
OtherRequests ==
    {[type |-> "hello", event |-> e] :
        e \in {x \in OtherEvents : /\ x.type = "message" /\ x.subtype = None
                                   /\ x.ts # None /\ x.text # NoneStr}}

\* What Slack hands the listener for one user action.
Deliveries ==
    {SlackEvents(m) : m \in PhysicalMessages}
    \cup {{EventsApi(e)} : e \in OtherEvents}
    \cup {{r} : r \in OtherRequests}

\* Outbound contents: a bulk of `reps` equal lines, each followed by a
\* separator, and then a tail of at most MaxTailLines lines.
MaxTailLines == 2

\* k copies of s
Repeat(s, k) == [i \in 1..(k * Len(s)) |-> s[((i - 1) % Len(s)) + 1]]

\* <<line, separator, repetitions>>: 50 paragraphs that each need a chunk of
\* their own, paragraphs and lines that accumulate, a paragraph and a line
\* that reach MAX_BLOCK_LENGTH exactly when a 1500-character piece is joined
\* to them, and over-long lines.
BulkShapes ==
    {<<Fill("a", MAX_BLOCK_LENGTH - 1), NLNL, MAX_BLOCKS>>,
     <<Fill("a", 1000), NLNL, 2>>,
     <<Fill("a", 999), NL, 3>>,
     <<Fill("a", 1498), NLNL, 1>>,
     <<Fill("a", 1499), NL, 1>>,
     <<Fill("a", MAX_BLOCK_LENGTH + 1), NL, 2>>}

Bulks == {<<>>} \cup {Repeat(u[1] \o u[2], u[3]) : u \in BulkShapes}

TailLetters == <<"b", "c", "d", "e">>

\* The shapes a tail line can take, written with the letter c.
LineShapes(c) ==
    {<<>>,
     Fill(c, 1),
     Fill(c, 1500),
     Fill(c, MAX_BLOCK_LENGTH - 2),
     Fill(c, MAX_BLOCK_LENGTH),
     Fill(c, MAX_BLOCK_LENGTH + 1),
     Star \o Star \o Fill(c, MAX_BLOCK_LENGTH - 3) \o Star \o Star}

\* The tails of exactly k lines; line i is written with TailLetters[i].
RECURSIVE TailsOf(_)
TailsOf(k) ==
    IF k = 0 THEN {<<>>}
    ELSE IF k = 1 THEN LineShapes(TailLetters[1])
    ELSE {t \o sep \o l : t \in TailsOf(k - 1), sep \in {NL, NLNL},
                          l \in LineShapes(TailLetters[k])}

Tails == UNION {TailsOf(k) : k \in 0..MaxTailLines}

Contents == {b \o t : b \in Bulks, t \in Tails}

\* Short markdown contents: a word or two inside each kind of markup, alone
\* and followed by a second line.
Words ==
    {Lit(<<"T", "i", "t", "l", "e">>), Lit(<<"i", "t", "e", "m">>),
     Lit(<<"g", "o", "n", "e">>), Lit(<<"t", "w", "o", " ", "w", "o", "r", "d", "s">>)}
Hashes(k) == [i \in 1..k |-> [c |-> "#", n |-> 1]]
Spaces(k) == [i \in 1..k |-> [c |-> " ", n |-> 1]]

\* The whitespace, other than the space and the newline, that \s takes
\* between the "#" and the text of a header and before the "-" of a bullet.
Gaps == {Ch(c) : c \in Whitespace \ {" ", "\n"}}

Headers ==
    {Hashes(k) \o Spaces(sp) \o w : k \in 1..7, sp \in 0..2, w \in Words}
    \cup {Hashes(k) \o g \o w : k \in 1..7, g \in Gaps, w \in Words}
Bullets ==
    {Spaces(sp) \o Ch("-") \o Spaces(1) \o w : sp \in 0..2, w \in Words}
    \cup {g \o Ch("-") \o Spaces(1) \o w : g \in Gaps, w \in Words}
Marked(mark, w) == mark \o w \o mark
Spans ==
    {Marked(mark, w) :
        mark \in {Star, Star \o Star, Underscore, Underscore \o Underscore,
                  Ch("~"), Ch("~") \o Ch("~")},
        w \in Words}

BoldAndItalic ==
    Lit(<<"*", "*", "b", "o", "l", "d", "*", "*", " ", "a", "n", "d", " ",
          "*", "i", "t", "a", "l", "i", "c", "*">>)

MarkdownLines == Headers \cup Bullets \cup Spans \cup {BoldAndItalic}

\* A markdown line alone, followed by a line and preceded by a line.
Below(l) == l \o NL \o Lit(<<"e", "n", "d">>)
Above(l) == Lit(<<"t", "o", "p">>) \o NL \o l

MarkdownContents ==
    MarkdownLines \cup {Below(l) : l \in MarkdownLines}
    \cup {Above(l) : l \in MarkdownLines}

\* OutboundMessage values: every content in a channel thread, and a few
\* contents with every kind of metadata.
OutboundMessages ==
    {[chat_id |-> "C1", content |-> c, thread_ts |-> "1.0", channel_type |-> "channel"] :
        c \in Contents \cup MarkdownContents}
    \cup {[chat_id |-> "D1", content |-> c, thread_ts |-> th, channel_type |-> ct] :
        c \in {NoneStr, Fill("b", 1)}, th \in {None, "", "1.0"},
        ct \in {None, "im", "channel"}}

(***************************************************************************)
(* The state machine                                                       *)
(***************************************************************************)
\* The channel object as its methods read it.
Self == [config |-> config, bot_user_id |-> bot_user_id, web_client |-> web_client]

\* __init__ (lines 89-94)
InitChannel ==
    /\ running = FALSE
    /\ web_client = FALSE
    /\ socket_client = FALSE
    /\ socket_mode_request_listeners = FALSE
    /\ bot_user_id = NoneStr
    /\ posted = <<>>
    /\ start_pc = "idle"
    /\ stop_pc = "idle"
    /\ handling = {}
    /\ log = <<>>

\* A channel that is handed one outbound message.
InitSend ==
    /\ InitChannel
    /\ config = BaseConfig
    /\ outbox \in {<<m>> : m \in OutboundMessages}
    /\ pending = {}

\* A channel, under any configuration, to which Slack delivers the events of
\* one user action.
\* The half of the access policy that the events of a delivery do not read
\* is left as in BaseConfig: _is_allowed reads config.dm for an im event and
\* the group policy for any other, and _should_respond_in_channel is called
\* for the latter only (lines 323-326, 361-383).
ReadByEvents(cfg, requests) ==
    \/ cfg \in UnstartableConfigs
    \/ \A r \in requests :
          IF ChannelTypeOf(r.event) = "im"
          THEN /\ cfg.group_policy = BaseConfig.group_policy
               /\ cfg.group_allow_from = BaseConfig.group_allow_from
          ELSE cfg.dm = BaseConfig.dm

InitRecv ==
    /\ InitChannel
    /\ pending \in Deliveries
    /\ config \in {cfg \in Configs : ReadByEvents(cfg, pending)}
    /\ outbox = <<>>

Init == InitSend \/ InitRecv

\* The coroutines are suspended at their awaits, where the other coroutines
\* of the event loop run: each action below is the code between two awaits.
\* One call of start() and one call of stop() are followed at a time.

\* start() up to its first await (lines 98-117): no test of _running; the
\* clients are created and the listener registered before auth_test is awaited.
start ==
    /\ start_pc = "idle"
    /\ IF config.bot_token = "" \/ config.app_token = "" \/ config.mode # "socket"
       THEN UNCHANGED <<running, web_client, socket_client,
                        socket_mode_request_listeners, start_pc>>
       ELSE /\ running' = TRUE
            /\ web_client' = TRUE
            /\ socket_client' = TRUE
            /\ socket_mode_request_listeners' = TRUE
            /\ start_pc' = "auth_test"
    /\ UNCHANGED <<config, bot_user_id, outbox, posted, pending, stop_pc,
                   handling, log>>

\* What auth.get("user_id") can be: the bot's user id, an empty id, or None
\* for a response without one.
AuthUserIds == {BotUserId, <<>>, NoneStr}

\* start() from the return of auth_test (lines 117-127).  The answer's
\* user_id is stored, whatever it is; when auth_test raises _bot_user_id stays
\* as it was.  Then connect() is awaited on the socket client (AttributeError
\* when stop() has cleared it meanwhile), and the loop of lines 126-127
\* changes nothing.
start_auth_test ==
    /\ start_pc = "auth_test"
    /\ bot_user_id' \in AuthUserIds \cup {bot_user_id}
    /\ start_pc' = "idle"
    /\ UNCHANGED <<config, running, web_client, socket_client,
                   socket_mode_request_listeners, outbox, posted,
                   pending, stop_pc, handling, log>>

\* stop() up to its await (lines 131-134)
stop ==
    /\ stop_pc = "idle"
    /\ running' = FALSE
    /\ stop_pc' = IF socket_client THEN "close" ELSE "idle"
    /\ UNCHANGED <<config, web_client, socket_client,
                   socket_mode_request_listeners, bot_user_id, outbox, posted,
                   pending, start_pc, handling, log>>

\* stop() from the return of close(), which may have raised (lines 134-137):
\* the socket client held now is cleared.
stop_close ==
    /\ stop_pc = "close"
    /\ socket_client' = FALSE
    /\ stop_pc' = "idle"
    /\ UNCHANGED <<config, running, web_client,
                   socket_mode_request_listeners, bot_user_id, outbox, posted,
                   pending, start_pc, handling, log>>

\* send(msg) (lines 139-267) for the message at the head of the outbox; its
\* only await is the call of chat_postMessage.
\* chat_postMessage may raise; the exception is logged and nothing is posted.
\* A call that was made is recorded with the message it was made for.
send ==
    /\ outbox # <<>>
    /\ outbox' = Tail(outbox)
    /\ IF ~web_client
       THEN posted' = posted
       ELSE \/ posted' = Append(posted, [msg |-> Head(outbox)] @@ PostCall(Head(outbox)))
            \/ posted' = posted
    /\ UNCHANGED <<config, running, web_client, socket_client,
                   socket_mode_request_listeners, bot_user_id,
                   pending, start_pc, stop_pc, handling, log>>

\* The channel as a suspended handler call sees it: the identity it read
\* when it evaluated the rules (lines 297-329), the web client as it is now
\* (line 338).
SelfOf(h) == [config |-> config, bot_user_id |-> h.bot_user_id, web_client |-> web_client]

\* The await a handler call reaches after the one it returns from, given what
\* the call does (r): the download (334), reactions_add (339), or none before
\* it returns.
NextAwait(pc, r) ==
    IF pc = "ack" /\ r.downloaded THEN "download"
    ELSE IF pc # "reaction" /\ r.reaction_tried THEN "reaction"
    ELSE "return"

\* The handler call h goes on to its next await, or calls _handle_message for
\* an admitted event and returns; r is what the call has done by then.
Continue(h, self, media, r) ==
    IF NextAwait(h.pc, r) = "return"
    THEN /\ handling' = handling \ {h}
         /\ log' = Append(log, r)
    ELSE /\ handling' = (handling \ {h}) \cup
                           {[req |-> h.req, pc |-> NextAwait(h.pc, r),
                             bot_user_id |-> self.bot_user_id, media |-> media]}
         /\ log' = log

\* _on_socket_request(client, req) up to its first await (lines 275-281),
\* called by a socket client that holds the listener, for a request Slack
\* has emitted; the handler tests neither _socket_client nor _running.  A
\* request that is not an event is dropped, an event is acknowledged.
_on_socket_request ==
    /\ socket_mode_request_listeners
    /\ \E req \in pending :
          /\ pending' = pending \ {req}
          /\ IF Acknowledged(req)
             THEN /\ handling' = handling \cup
                                    {[req |-> req, pc |-> "ack",
                                      bot_user_id |-> NoneStr, media |-> 0]}
                  /\ log' = log
             ELSE /\ handling' = handling
                  /\ log' = Append(log, Handle(Self, req, 0, FALSE))
    /\ UNCHANGED <<config, running, web_client, socket_client,
                   socket_mode_request_listeners, bot_user_id,
                   outbox, posted, start_pc, stop_pc>>

\* From the await of send_socket_mode_response (lines 279-347): when it
\* returns the rules are evaluated on the identity the channel holds now;
\* when it raises the call ends there.
_on_socket_request_acked ==
    /\ \E h \in handling :
          /\ h.pc = "ack"
          /\ \/ Continue(h, Self, 0, Handle(Self, h.req, 0, FALSE))
             \/ /\ handling' = handling \ {h}
                /\ log' = Append(log, AckRaised(Self, h.req))
    /\ UNCHANGED <<config, running, web_client, socket_client,
                   socket_mode_request_listeners, bot_user_id,
                   outbox, posted, pending, start_pc, stop_pc>>

\* From the return of _download_slack_files with `media` local paths
\* (lines 334-347).
_on_socket_request_downloaded ==
    /\ \E h \in handling :
          /\ h.pc = "download"
          /\ \E media \in 0..h.req.event.files :
                Continue(h, SelfOf(h), media, Handle(SelfOf(h), h.req, media, FALSE))
    /\ UNCHANGED <<config, running, web_client, socket_client,
                   socket_mode_request_listeners, bot_user_id,
                   outbox, posted, pending, start_pc, stop_pc>>

\* From the return of reactions_add, which succeeded or raised
\* (lines 339-359).
_on_socket_request_reacted ==
    /\ \E h \in handling :
          /\ h.pc = "reaction"
          /\ \E reaction_ok \in BOOLEAN :
                Continue(h, SelfOf(h), h.media,
                         Handle(SelfOf(h), h.req, h.media, reaction_ok))
    /\ UNCHANGED <<config, running, web_client, socket_client,
                   socket_mode_request_listeners, bot_user_id,
                   outbox, posted, pending, start_pc, stop_pc>>

Next ==
    \/ start \/ start_auth_test \/ stop \/ stop_close \/ send
    \/ _on_socket_request \/ _on_socket_request_acked
    \/ _on_socket_request_downloaded \/ _on_socket_request_reacted
Spec == Init /\ [][Next]_vars

\* The outbound half: start and send on one outbound message.  send() reads
\* only _web_client, which start() sets before its first await; what start()
\* does from there on is left to Spec and SpecRecv.
NextSend == start \/ send
SpecSend == InitSend /\ [][NextSend]_vars

\* The inbound half: start, stop and the delivery of one user action's events.
NextRecv ==
    \/ start \/ start_auth_test \/ stop \/ stop_close
    \/ _on_socket_request \/ _on_socket_request_acked
    \/ _on_socket_request_downloaded \/ _on_socket_request_reacted
SpecRecv == InitRecv /\ [][NextRecv]_vars

(***************************************************************************)
(* Properties of the outbound path (under SpecSend)                        *)
(***************************************************************************)
IsSection(block) == block.type = "section"
IsNote(block) == block.type = "context"

\* The bodies of the section blocks of a plan, in order.
BodiesOf(blocks) == [i \in DOMAIN blocks |-> blocks[i].text]
SectionBodies(blocks) == BodiesOf(SelectSeq(blocks, IsSection))

\* The text ends with "..."
EndsWithEllipsis(text) ==
    Len(text) >= Len(Ellipsis)
    /\ SubSeq(text, Len(text) - Len(Ellipsis) + 1, Len(text)) = Ellipsis

\* C1: every section block of every message send() has posted has a body of
\* at most MAX_BLOCK_LENGTH = 3000 characters, whichever path built it.
BlockBodiesFit ==
    \A k \in DOMAIN posted :
        \A i \in DOMAIN posted[k].blocks :
            IsSection(posted[k].blocks[i])
                => len(posted[k].blocks[i].text) <= MAX_BLOCK_LENGTH

\* C1 happens: a plan of several blocks was posted, one of them a line cut to
\* exactly MAX_BLOCK_LENGTH characters with its ellipsis, another one built by
\* accumulation.
HardTruncatedBlockPosted ==
    \E k \in DOMAIN posted :
        /\ \E i \in DOMAIN posted[k].blocks :
              /\ IsSection(posted[k].blocks[i])
              /\ len(posted[k].blocks[i].text) = MAX_BLOCK_LENGTH
              /\ EndsWithEllipsis(posted[k].blocks[i].text)
        /\ \E j \in DOMAIN posted[k].blocks :
              /\ IsSection(posted[k].blocks[j])
              /\ Contains(posted[k].blocks[j].text, NL)

\* C2: the plan of one message holds at most MAX_BLOCKS = 50 blocks, the note
\* included; when the chunker produces more than 50 chunks the plan holds
\* exactly 50 blocks, the last of them the note.
PlanWithinMaxBlocks ==
    \A k \in DOMAIN posted :
        /\ Len(posted[k].blocks) <= MAX_BLOCKS
        /\ (len(posted[k].text) > MAX_BLOCK_LENGTH
            /\ Len(Chunks(posted[k].text)) > MAX_BLOCKS)
               => /\ Len(posted[k].blocks) = MAX_BLOCKS
                  /\ IsNote(posted[k].blocks[Len(posted[k].blocks)])

\* The plan C9 describes for the chunks of one text.
NotePlan(blocks, chunks) ==
    IF Len(chunks) > MAX_BLOCKS
    THEN /\ Len(blocks) = MAX_BLOCKS + 1
         /\ \A i \in 1..MAX_BLOCKS : blocks[i] = SectionBlock(chunks[i])
         /\ IsNote(blocks[MAX_BLOCKS + 1])
         /\ blocks[MAX_BLOCKS + 1].text = NoteText(Len(chunks) - MAX_BLOCKS)
    ELSE /\ Len(blocks) = Len(chunks)
         /\ \A i \in DOMAIN blocks : blocks[i] = SectionBlock(chunks[i])

\* C9: when more than 50 chunks are produced the plan is the first 50 chunks
\* in order followed by exactly one note block, which reports
\* (total chunks - 50) omitted blocks; when 50 or fewer chunks are produced
\* (and on the single-block path) the plan holds no note block.
NoteReportsOmittedChunks ==
    \A k \in DOMAIN posted :
        IF len(posted[k].text) > MAX_BLOCK_LENGTH
        THEN NotePlan(posted[k].blocks, Chunks(posted[k].text))
        ELSE \A i \in DOMAIN posted[k].blocks : ~IsNote(posted[k].blocks[i])

\* C9 happens: 52 chunks were produced, and the plan posted ends with the
\* note "_Message truncated (2 blocks omitted)_".
TwoChunksOmitted ==
    \E k \in DOMAIN posted :
        /\ len(posted[k].text) > MAX_BLOCK_LENGTH
        /\ Len(Chunks(posted[k].text)) = MAX_BLOCKS + 2
        /\ posted[k].blocks[Len(posted[k].blocks)].text =
              Lit(<<"_", "M", "e", "s", "s", "a", "g", "e", " ", "t", "r", "u", "n",
                    "c", "a", "t", "e", "d", " ", "(", "2", " ", "b", "l", "o", "c",
                    "k", "s", " ", "o", "m", "i", "t", "t", "e", "d", ")", "_">>)

\* The text without its newline characters.
NotNewline(run) == run.c # "\n"
WithoutNewlines(text) == Norm(SelectSeq(text, NotNewline))

\* No line of the text is longer than MAX_BLOCK_LENGTH.
AllFit(lines) == \A i \in DOMAIN lines : len(lines[i]) <= MAX_BLOCK_LENGTH
NoLongLine(text) == AllFit(split(text, NL))

\* out is a prefix of whole
IsPrefix(out, whole) == take(whole, len(out)) = out

\* The section bodies of the plan, concatenated in order, newlines removed.
PostedText(blocks) == WithoutNewlines(join(SectionBodies(blocks), <<>>))

\* out is a prefix of whole, and all of it when at most MAX_BLOCKS chunks
\* were produced.
KeptInOrder(out, whole, chunks) ==
    /\ IsPrefix(out, whole)
    /\ Len(chunks) <= MAX_BLOCKS => out = whole

\* C10: for a converted text longer than 3000 characters none of whose lines
\* is longer than 3000, the section bodies concatenated in order are, newlines
\* aside, a prefix of the text, and all of it when at most 50 chunks are
\* produced.
ChunkerKeepsContent ==
    \A k \in DOMAIN posted :
        (len(posted[k].text) > MAX_BLOCK_LENGTH /\ NoLongLine(posted[k].text))
            => KeptInOrder(PostedText(posted[k].blocks),
                           WithoutNewlines(posted[k].text),
                           Chunks(posted[k].text))

\* C10 happens: a long text without over-long lines was posted in more than
\* 50 chunks, so that the plan holds a proper prefix of it.
ProperPrefixPosted ==
    \E k \in DOMAIN posted :
        /\ len(posted[k].text) > MAX_BLOCK_LENGTH
        /\ NoLongLine(posted[k].text)
        /\ Len(Chunks(posted[k].text)) > MAX_BLOCKS
        /\ PostedText(posted[k].blocks) # WithoutNewlines(posted[k].text)
        /\ PostedText(posted[k].blocks) # <<>>

\* C11: a converted text of at most 3000 characters, the empty text
\* included, is posted as exactly one section block whose body is the text,
\* newlines and blank lines kept, and without a note block.
ShortTextInOneBlock ==
    \A k \in DOMAIN posted :
        len(posted[k].text) <= MAX_BLOCK_LENGTH
            => posted[k].blocks = <<SectionBlock(posted[k].text)>>

\* C11 happens: a text of exactly MAX_BLOCK_LENGTH characters that holds
\* newlines was posted as one block.
LimitTextInOneBlock ==
    \E k \in DOMAIN posted :
        /\ len(posted[k].text) = MAX_BLOCK_LENGTH
        /\ Contains(posted[k].text, NL)
        /\ Len(posted[k].blocks) = 1

\* The message with content `from`, alone or with a line above or below
\* it, was posted as the text `to` with the same lines around it.
ConvertedAs(p, from, to) ==
    /\ p.msg.content = from => p.text = to
    /\ p.msg.content = Below(from) => p.text = Below(to)
    /\ p.msg.content = Above(from) => p.text = Above(to)

\* "*bold* and _italic_"
BoldAndItalicAsClaimed ==
    Lit(<<"*", "b", "o", "l", "d", "*", " ", "a", "n", "d", " ",
          "_", "i", "t", "a", "l", "i", "c", "_">>)

\* C14: markdown_to_slack turns **text** and __text__ into *text*, turns a
\* single-asterisk span *text* into _text_, and turns
\* "**bold** and *italic*" into "*bold* and _italic_".
BoldAndItalicConverted ==
    \A k \in DOMAIN posted :
        /\ \A w \in Words :
              /\ ConvertedAs(posted[k], Marked(Star \o Star, w), Marked(Star, w))
              /\ ConvertedAs(posted[k], Marked(Underscore \o Underscore, w),
                             Marked(Star, w))
              /\ ConvertedAs(posted[k], Marked(Star, w), Marked(Underscore, w))
        /\ ConvertedAs(posted[k], BoldAndItalic, BoldAndItalicAsClaimed)

\* C15: markdown_to_slack turns a line of 1 to 6 "#", whitespace and text into
\* *text* (which the italic pass leaves alone), a line of indentation, "- "
\* and text into the same indentation, "* " and the text, and ~~text~~ into
\* ~text~; so "# Title" gives "*Title*", "- item" gives "* item" and
\* "~~gone~~" gives "~gone~".
HeadersBulletsStrikesConverted ==
    \A k \in DOMAIN posted :
        \A w \in Words :
            /\ \A h \in 1..6, sp \in 1..2 :
                  ConvertedAs(posted[k], Hashes(h) \o Spaces(sp) \o w,
                              Marked(Star, w))
            /\ \A h \in 1..6, g \in Gaps :
                  ConvertedAs(posted[k], Hashes(h) \o g \o w, Marked(Star, w))
            /\ \A sp \in 0..2 :
                  ConvertedAs(posted[k], Spaces(sp) \o Ch("-") \o Spaces(1) \o w,
                              Spaces(sp) \o Star \o Spaces(1) \o w)
            /\ \A g \in Gaps :
                  ConvertedAs(posted[k], g \o Ch("-") \o Spaces(1) \o w,
                              g \o Star \o Spaces(1) \o w)
            /\ ConvertedAs(posted[k], Marked(Ch("~") \o Ch("~"), w),
                           Marked(Ch("~"), w))

\* C15 happens: a header line of six "#" followed by a second line was
\* posted as bold text followed by that line.
HeaderLinePosted ==
    \E k \in DOMAIN posted :
        \E w \in Words :
            /\ posted[k].msg.content = Below(Hashes(6) \o Spaces(1) \o w)
            /\ posted[k].text = Below(Marked(Star, w))

\* markdown_to_slack(msg.content or "")
ConvertedContent(msg) ==
    markdown_to_slack(IF msg.content = NoneStr THEN <<>> ELSE msg.content)

\* C19: every call send() makes carries the whole converted text of its
\* message as the fallback text, on the single-block path and on the chunked
\* path, also when a block was cut or chunks were dropped.
FallbackIsWholeConvertedText ==
    \A k \in DOMAIN posted : posted[k].text = ConvertedContent(posted[k].msg)

\* C19 happens: a message was posted whose plan ends with the note, with a
\* fallback text longer than all of its blocks together can be.
FallbackWithDroppedChunks ==
    \E k \in DOMAIN posted :
        /\ IsNote(posted[k].blocks[Len(posted[k].blocks)])
        /\ len(posted[k].text) > MAX_BLOCKS * MAX_BLOCK_LENGTH
        /\ posted[k].text = ConvertedContent(posted[k].msg)

\* No chunk of the plan could have taken the first piece of the chunk after
\* it: joined by sep, the two are longer than MAX_BLOCK_LENGTH.
ClosedOnlyWhenFull(bodies, sep) ==
    \A i \in 1..(Len(bodies) - 1) :
        len(bodies[i]) + Len(sep) + len(split(bodies[i + 1], sep)[1])
            > MAX_BLOCK_LENGTH

\* Every paragraph of the text fits a chunk together with its separator, so
\* that chunks are built from whole paragraphs.
WholeParagraphs(paragraphs) ==
    \A i \in DOMAIN paragraphs : len(paragraphs[i]) + 2 <= MAX_BLOCK_LENGTH

\* C20: accumulation is greedy.  In a text chunked by whole paragraphs a
\* chunk is closed only when the chunk joined by a blank line with the next
\* paragraph would be longer than 3000; in a text of one paragraph chunked by
\* whole lines, only when the chunk joined by a newline with the next line
\* would be longer than 3000.
GreedyAccumulation ==
    \A k \in DOMAIN posted :
        len(posted[k].text) > MAX_BLOCK_LENGTH
            => /\ WholeParagraphs(split(posted[k].text, NLNL))
                     => ClosedOnlyWhenFull(SectionBodies(posted[k].blocks), NLNL)
               /\ (~Contains(posted[k].text, NLNL) /\ NoLongLine(posted[k].text))
                     => ClosedOnlyWhenFull(SectionBodies(posted[k].blocks), NL)

\* The paragraphs each body of the plan is made of.
ParagraphsIn(bodies) == [i \in DOMAIN bodies |-> split(bodies[i], NLNL)]

\* Every paragraph of at most MAX_BLOCK_LENGTH characters is a paragraph of
\* one of the bodies.
ShortOnesWhole(paragraphs, pieces) ==
    \A i \in DOMAIN paragraphs :
        len(paragraphs[i]) <= MAX_BLOCK_LENGTH
            => \E b \in DOMAIN pieces :
                  \E j \in DOMAIN pieces[b] : pieces[b][j] = paragraphs[i]

\* C21: a paragraph is split by line only if it is longer than 3000
\* characters.  In a chunked text whose chunks are all kept (the plan has no
\* note), every paragraph of at most 3000 characters appears whole inside a
\* single text block.
ShortParagraphsWhole ==
    \A k \in DOMAIN posted :
        (/\ len(posted[k].text) > MAX_BLOCK_LENGTH
         /\ Len(posted[k].blocks) <= MAX_BLOCKS)
            => ShortOnesWhole(split(posted[k].text, NLNL),
                              ParagraphsIn(SectionBodies(posted[k].blocks)))

\* What is to be posted of one line: the line, or its first 2997 characters
\* and the ellipsis when it is longer than MAX_BLOCK_LENGTH.
CutLine(line) ==
    IF len(line) > MAX_BLOCK_LENGTH
    THEN take(line, MAX_BLOCK_LENGTH - 3) \o Ellipsis
    ELSE line
CutLines(lines) == [i \in DOMAIN lines |-> CutLine(lines[i])]

NoNote(blocks) == \A i \in DOMAIN blocks : ~IsNote(blocks[i])

\* Every over-long line has its own body, the cut line: as many bodies are
\* cut lines as there are over-long lines.
OwnChunks(lines, cut, bodies) ==
    Cardinality({b \in DOMAIN bodies :
                    \E i \in DOMAIN lines :
                        len(lines[i]) > MAX_BLOCK_LENGTH /\ bodies[b] = cut[i]})
        = Cardinality({i \in DOMAIN lines : len(lines[i]) > MAX_BLOCK_LENGTH})

\* The plan holds the cut lines in the order of the text and nothing else:
\* all of them when it has no note, the first of them otherwise.
CutLinesInOrder(blocks, lines, cut) ==
    /\ IsPrefix(PostedText(blocks), WithoutNewlines(join(cut, <<>>)))
    /\ NoNote(blocks)
          => /\ PostedText(blocks) = WithoutNewlines(join(cut, <<>>))
             /\ OwnChunks(lines, cut, SectionBodies(blocks))

\* C22: in a chunked text a line longer than 3000 characters is posted as one
\* chunk of its own, its first 2997 characters followed by "...".  The lines
\* before it are posted before it and the lines after it after it, the rest
\* of the line is in no block, and the plan has a note only when it holds
\* MAX_BLOCKS text blocks already, never for the cut alone.
LongLineCutIntoOwnChunk ==
    \A k \in DOMAIN posted :
        len(posted[k].text) > MAX_BLOCK_LENGTH
            => /\ CutLinesInOrder(posted[k].blocks, split(posted[k].text, NL),
                                  CutLines(split(posted[k].text, NL)))
               /\ NoNote(posted[k].blocks)
                  \/ Len(SectionBodies(posted[k].blocks)) = MAX_BLOCKS

\* C22 happens: a one-paragraph text was posted without a note in three
\* blocks or more, an inner one of them a cut line with its ellipsis.
CutLineBetweenItsNeighbours ==
    \E k \in DOMAIN posted :
        /\ ~Contains(posted[k].text, NLNL)
        /\ NoNote(posted[k].blocks)
        /\ \E b \in 2..(Len(posted[k].blocks) - 1) :
              /\ len(posted[k].blocks[b].text) = MAX_BLOCK_LENGTH
              /\ EndsWithEllipsis(posted[k].blocks[b].text)
              /\ len(posted[k].blocks[b - 1].text) > 0
              /\ len(posted[k].blocks[b + 1].text) > 0

\* C27: on the chunked path (converted text longer than 3000 characters) no
\* text block of the plan has an empty body.
NoEmptyBlockWhenChunked ==
    \A k \in DOMAIN posted :
        len(posted[k].text) > MAX_BLOCK_LENGTH
            => \A i \in DOMAIN posted[k].blocks :
                  IsSection(posted[k].blocks[i]) => posted[k].blocks[i].text # <<>>

(***************************************************************************)
(* Properties of the inbound path (under SpecRecv)                         *)
(***************************************************************************)
\* The event of a handled request, and the channel as it was during the call.
EventOf(r) == r.req.event
SelfAt(r) == [config |-> config, bot_user_id |-> r.bot_user_id, web_client |-> TRUE]

\* The records of the calls that dispatched their event to the agent.
Dispatches == {i \in DOMAIN log : log[i].dispatched}

\* The call evaluated the rules: its acknowledgement was sent and returned.
Decided(r) == r.acked /\ ~r.raised

\* The request passed the type, subtype, self, dedup and identity rules.
PassedEarlierRules(r) ==
    /\ Decided(r)
    /\ RecognizedType(EventOf(r))
    /\ ~SystemSubtype(EventOf(r))
    /\ ~SelfAuthored(SelfAt(r), EventOf(r))
    /\ ~Superseded(SelfAt(r), EventOf(r))
    /\ ~MissingIdentity(EventOf(r))

\* C3: of the message event and the app_mention event Slack delivers for one
\* physical message that mentions the bot, at most one is dispatched, in
\* either order of arrival, with or without attachments.  (pending holds the
\* events of one physical message, so log holds only their records.)
MentionDispatchedOnce ==
    \A i, j \in Dispatches :
        (/\ EmitsAppMention(EventOf(log[i]))
         /\ EventOf(log[i]).ts = EventOf(log[j]).ts
         /\ EventOf(log[i]).channel = EventOf(log[j]).channel) => i = j

\* C4: an event whose sender is the bot's own user id is never dispatched,
\* whether auth_test resolved the identity or failed.
OwnEventsNeverDispatched ==
    \A i \in Dispatches : EventOf(log[i]).user # BotUserId

\* The text holds the mention token of the identity the call read: "<@" +
\* the bot's user id + ">", for a channel that holds a user id.
HoldsToken(r) ==
    /\ r.bot_user_id # NoneStr
    /\ Contains(TextOf(EventOf(r)), MentionToken(r.bot_user_id))

\* C5: a message event whose text holds the bot's mention token is ignored
\* when it carries no attachments; with attachments it is dispatched exactly
\* when the subtype, self, identity and access-policy rules admit it.
MentionWithoutFilesIgnored ==
    \A i \in DOMAIN log :
        (/\ Decided(log[i])
         /\ EventOf(log[i]).type = "message"
         /\ HoldsToken(log[i]))
            => IF EventOf(log[i]).files = 0
               THEN ~log[i].dispatched
               ELSE log[i].dispatched <=>
                       /\ ~SystemSubtype(EventOf(log[i]))
                       /\ ~SelfAuthored(SelfAt(log[i]), EventOf(log[i]))
                       /\ ~MissingIdentity(EventOf(log[i]))
                       /\ PolicyAdmits(SelfAt(log[i]), EventOf(log[i]))

\* C6: an event evaluated under a mode that is not a recognized one is never
\* dispatched: the direct-message mode for an im event, the group mode for
\* any other.
UnrecognizedModeDenied ==
    \A i \in Dispatches :
        IF ChannelTypeOf(EventOf(log[i])) = "im"
        THEN config.dm.policy \in {"open", "allowlist"}
        ELSE config.group_policy \in {"open", "mention", "allowlist"}

\* C7: an im event that passed the earlier rules is ignored when dm.enabled
\* is false; under mode allowlist it is dispatched iff its sender is in
\* dm.allow_from; under mode open it is dispatched.
DirectMessagePolicy ==
    \A i \in DOMAIN log :
        (PassedEarlierRules(log[i]) /\ ChannelTypeOf(EventOf(log[i])) = "im")
            => /\ ~config.dm.enabled => ~log[i].dispatched
               /\ (config.dm.enabled /\ config.dm.policy = "allowlist")
                     => (log[i].dispatched
                            <=> EventOf(log[i]).user \in config.dm.allow_from)
               /\ (config.dm.enabled /\ config.dm.policy = "open")
                     => log[i].dispatched

\* C7 happens: under mode allowlist a direct message of a listed sender was
\* dispatched.
ListedSenderDispatched ==
    \E i \in Dispatches :
        /\ ChannelTypeOf(EventOf(log[i])) = "im"
        /\ config.dm.enabled
        /\ config.dm.policy = "allowlist"
        /\ EventOf(log[i]).user \in config.dm.allow_from

\* C8: a group or channel event that passed the earlier rules is dispatched
\* iff the group mode is open, or it is mention and the event is an
\* app_mention or its text holds the bot's mention token, or it is allowlist
\* and the channel is in group_allow_from.
GroupPolicy ==
    \A i \in DOMAIN log :
        (PassedEarlierRules(log[i]) /\ ChannelTypeOf(EventOf(log[i])) # "im")
            => (log[i].dispatched <=>
                   \/ config.group_policy = "open"
                   \/ /\ config.group_policy = "mention"
                      /\ \/ EventOf(log[i]).type = "app_mention"
                         \/ HoldsToken(log[i])
                   \/ /\ config.group_policy = "allowlist"
                      /\ EventOf(log[i]).channel \in config.group_allow_from)

\* C8 happens: under mode mention a message event (not an app_mention) whose
\* text holds the mention token was dispatched, and a second request of the
\* same delivery was handled too.
MentionedInGroupDispatched ==
    \E i \in Dispatches :
        /\ ChannelTypeOf(EventOf(log[i])) # "im"
        /\ config.group_policy = "mention"
        /\ EventOf(log[i]).type = "message"
        /\ HoldsToken(log[i])
        /\ Len(log) = 2

\* The text with every occurrence of the token removed, each together with
\* at most one space that follows it (scan from run i).
RECURSIVE WithoutTokenAndOneSpace(_, _, _)
WithoutTokenAndOneSpace(token, s, i) ==
    IF i > Len(s) THEN <<>>
    ELSE IF MatchAt(s, token, i)
         THEN WithoutTokenAndOneSpace(token, s,
                  IF CharAt(s, i + Len(token)) = " " THEN i + Len(token) + 1
                  ELSE i + Len(token))
         ELSE <<s[i]>> \o WithoutTokenAndOneSpace(token, s, i + 1)

\* C12: the text dispatched for an admitted event is the event text without
\* the occurrences of the bot's mention token, each removed together with at
\* most one following space, and then trimmed.  (Stated for the calls made
\* while the channel holds the identity auth_test resolved.)
TokenAndOneSpaceStripped ==
    \A i \in Dispatches :
        log[i].bot_user_id = BotUserId
            => log[i].content =
                  strip(Norm(WithoutTokenAndOneSpace(MentionToken(BotUserId),
                                                     TextOf(EventOf(log[i])), 1)))

\* The text neither begins nor ends with whitespace.
Trimmed(text) ==
    text = <<>> \/ (text[1].c \notin Whitespace /\ text[Len(text)].c \notin Whitespace)

\* C13: the text dispatched for an admitted event holds no occurrence of the
\* bot's mention token and has no leading or trailing whitespace.  (Stated
\* for the calls made while the channel holds the identity auth_test
\* resolved.)
DispatchedTextHasNoToken ==
    \A i \in Dispatches :
        log[i].bot_user_id = BotUserId
            => /\ ~Contains(log[i].content, MentionToken(BotUserId))
               /\ Trimmed(log[i].content)

\* C16: an event is dispatched only if its type is message or app_mention,
\* its subtype is absent or file_share, and its sender id and its chat id are
\* both non-empty.
OnlyWellFormedEventsDispatched ==
    \A i \in Dispatches :
        /\ EventOf(log[i]).type \in {"message", "app_mention"}
        /\ EventOf(log[i]).subtype \in {None, "file_share"}
        /\ EventOf(log[i]).user \notin {NoneStr, <<>>}
        /\ EventOf(log[i]).channel \notin {None, ""}

\* C16 happens: an event of subtype file_share was dispatched with its
\* sender and its chat.
FileShareDispatched ==
    \E i \in Dispatches :
        /\ EventOf(log[i]).subtype = "file_share"
        /\ log[i].sender_id = U1
        /\ log[i].chat_id = "C1"

\* The record of the call that a step has just added to the log.
LastHandled == log'[Len(log')]

\* C17: a step of a handler call, whether the call dispatches or ignores its
\* event, leaves the access policy and the bot identity as they were; and
\* what a call that returns has decided and the text it has dispatched are
\* functions of the event, the policy and the identity the call read, whatever
\* was handled before it and whatever is being handled with it.
HandlingReadsOnlyPolicyAndIdentity ==
    [][(pending' # pending \/ handling' # handling \/ log' # log) =>
          /\ config' = config
          /\ bot_user_id' = bot_user_id
          /\ log' # log =>
                /\ LastHandled.dispatched =
                      (Decided(LastHandled)
                       /\ Admitted(SelfAt(LastHandled), EventOf(LastHandled)))
                /\ LastHandled.content =
                      IF LastHandled.dispatched
                      THEN _strip_bot_mention(SelfAt(LastHandled),
                                              TextOf(EventOf(LastHandled)))
                      ELSE NoneStr]_vars

\* C17 happens: the calls for two events have returned and both events were
\* dispatched.
TwoEventsDispatched ==
    /\ Len(log) = 2
    /\ log[1].dispatched
    /\ log[2].dispatched

\* C18: the thread token in the metadata dispatched for an admitted event is
\* the event's thread_ts when the event has one, and the event's own ts
\* otherwise.
ThreadTokenOfEvent ==
    \A i \in Dispatches :
        log[i].thread_ts = IF EventOf(log[i]).thread_ts # None
                           THEN EventOf(log[i]).thread_ts
                           ELSE EventOf(log[i]).ts

\* C18 happens: a reply inside the thread "0.5", itself sent at "1.0", was
\* dispatched with the thread token "0.5".
ThreadReplyDispatched ==
    \E i \in Dispatches :
        /\ EventOf(log[i]).thread_ts = "0.5"
        /\ EventOf(log[i]).ts = "1.0"
        /\ log[i].thread_ts = "0.5"

\* The calls of one run that come after the acknowledgement.
AfterAck(calls) == IF calls = <<>> THEN calls ELSE Tail(calls)

\* A call that did not dispatch, or whose event fails a rule, made no call
\* after the acknowledgement; a download, a reaction or a dispatch was made
\* only for an acknowledged request whose event passes every rule.
NoTraceIfIgnored(r) ==
    /\ (~r.dispatched \/ ~(Decided(r) /\ Admitted(SelfAt(r), EventOf(r))))
          => /\ ~r.downloaded
             /\ ~r.reaction_tried
             /\ ~r.reacted
             /\ ~r.dispatched
             /\ r.media = 0
             /\ AfterAck(r.calls) = <<>>
    /\ (r.downloaded \/ r.reaction_tried \/ r.dispatched)
          => (Decided(r) /\ Admitted(SelfAt(r), EventOf(r)))

\* C23: for an event that ends ignored, by whichever rule, the handler starts
\* no download, adds no reaction and dispatches nothing; a download, a
\* reaction or a dispatch happens only for an acknowledged request whose
\* event passes every admission rule: so for every call that has returned,
\* and a call that awaits its download or its reaction has passed them all.
IgnoredEventsLeaveNoTrace ==
    /\ \A i \in DOMAIN log : NoTraceIfIgnored(log[i])
    /\ \A h \in handling :
          h.pc \in {"download", "reaction"} => Admitted(SelfOf(h), h.req.event)

\* C23 happens: a message event with an attachment and a ts was handled while
\* the web client was up and ended ignored, with the acknowledgement as the
\* only call.
EventWithFilesIgnored ==
    \E i \in DOMAIN log :
        /\ web_client
        /\ EventOf(log[i]).type = "message"
        /\ EventOf(log[i]).files > 0
        /\ EventOf(log[i]).ts = "1.0"
        /\ Decided(log[i])
        /\ ~log[i].dispatched
        /\ log[i].calls = <<"send_socket_mode_response">>

IsAck(call) == call = "send_socket_mode_response"

\* C24: a request of type events_api is acknowledged exactly once, and the
\* acknowledgement is the first call of the handler, made whether the event
\* ends dispatched or ignored (also when it has no recognized type); a
\* request of any other type is neither acknowledged nor processed.  A call
\* whose acknowledgement raised made that call and no other.  A
\* request is handled by one call: it is pending, or with one call in flight
\* (which has acknowledged it), or in one record of the log.
EventsApiAcknowledgedFirst ==
    /\ \A i \in DOMAIN log :
          /\ log[i].req \notin pending
          /\ \A h \in handling : h.req # log[i].req
          /\ \A j \in DOMAIN log : log[j].req = log[i].req => j = i
          /\ IF log[i].req.type = "events_api"
             THEN /\ log[i].acked
                  /\ log[i].calls # <<>>
                  /\ IsAck(log[i].calls[1])
                  /\ Len(SelectSeq(log[i].calls, IsAck)) = 1
                  /\ log[i].raised => Len(log[i].calls) = 1
             ELSE /\ ~log[i].acked
                  /\ ~log[i].raised
                  /\ log[i].calls = <<>>
                  /\ ~log[i].downloaded
                  /\ ~log[i].reaction_tried
                  /\ ~log[i].dispatched
    /\ \A h \in handling :
          /\ h.req.type = "events_api"
          /\ h.req \notin pending
          /\ \A g \in handling : g.req = h.req => g = h

\* C24 happens: an events_api request whose event has no recognized type was
\* acknowledged and ignored.
UnrecognizedEventAcknowledged ==
    \E i \in DOMAIN log :
        /\ log[i].req.type = "events_api"
        /\ ~RecognizedType(EventOf(log[i]))
        /\ Decided(log[i])
        /\ ~log[i].dispatched

\* The place of a call in the order of the handler's statements.
Rank(call) ==
    CASE call = "send_socket_mode_response" -> 0
      [] call = "_download_slack_files" -> 1
      [] call = "reactions_add" -> 2
      [] call = "_handle_message" -> 3

\* The calls were made in the order of the handler's statements, each at most
\* once.
InOrder(calls) ==
    \A a, b \in DOMAIN calls : a < b => Rank(calls[a]) < Rank(calls[b])

\* The await the call of record r returned from when it dispatched.
LastAwait(r) ==
    IF r.reaction_tried THEN "reaction"
    ELSE IF r.downloaded THEN "download" ELSE "ack"

\* C25: an event that passes every admission rule, in a call whose
\* acknowledgement returned so that the rules are reached, is dispatched once,
\* as the last call of its run, after the download (made when the event has
\* files) and after the reaction (tried when the event has a ts), whether the
\* reaction call succeeds or raises: reactions_add is called for an event
\* with files only from the return of the download, and the dispatch is made
\* from the return of the last of the calls.
AdmittedEventDispatchedLast ==
    [][/\ \A h \in handling' \ handling :
             (h.pc = "reaction" /\ h.req.event.files > 0)
                => \E g \in handling : g.req = h.req /\ g.pc = "download"
       /\ (/\ log' # log
           /\ Decided(LastHandled)
           /\ Admitted(SelfAt(LastHandled), EventOf(LastHandled)))
             => /\ LastHandled.dispatched
                /\ InOrder(LastHandled.calls)
                /\ LastHandled.calls[Len(LastHandled.calls)] = "_handle_message"
                /\ LastHandled.downloaded <=> EventOf(LastHandled).files > 0
                /\ LastHandled.downloaded <=>
                      \E a \in DOMAIN LastHandled.calls :
                          LastHandled.calls[a] = "_download_slack_files"
                /\ LastHandled.reaction_tried <=>
                      \E a \in DOMAIN LastHandled.calls :
                          LastHandled.calls[a] = "reactions_add"
                /\ \E g \in handling \ handling' :
                      g.req = LastHandled.req /\ g.pc = LastAwait(LastHandled)
                /\ \A i \in DOMAIN log : log[i].req # LastHandled.req]_vars

\* C25 happens: an event with an attachment was dispatched after its files
\* were downloaded and after a reaction call that raised.
DispatchedAfterFailedReaction ==
    \E i \in Dispatches :
        /\ log[i].reaction_tried
        /\ ~log[i].reacted
        /\ log[i].calls = <<"send_socket_mode_response", "_download_slack_files",
                            "reactions_add", "_handle_message">>

\* C26: the dedup rule applies whatever the channel type.  A generic message
\* event of a direct message (im) whose text holds the bot's mention token
\* and that carries no attachments is never dispatched, whatever the
\* direct-message policy; and a generic message event of a group or channel
\* that is dispatched under group mode mention carries attachments.
DedupIgnoresChannelType ==
    \A i \in DOMAIN log :
        /\ (/\ Decided(log[i])
            /\ EventOf(log[i]).type = "message"
            /\ ChannelTypeOf(EventOf(log[i])) = "im"
            /\ HoldsToken(log[i])
            /\ EventOf(log[i]).files = 0) => ~log[i].dispatched
        /\ (/\ log[i].dispatched
            /\ EventOf(log[i]).type = "message"
            /\ ChannelTypeOf(EventOf(log[i])) # "im"
            /\ config.group_policy = "mention") => EventOf(log[i]).files > 0

====
